---- MODULE Spec2Model ----
(***************************************************************************)
(* Model of SimpleNNNetworkGraph._create_graph (nn_graph/graph.py): the    *)
(* construction of the directed graph of a network description, with the   *)
(* helpers _add_input_edge, _update_node_shapes, _add_projection,          *)
(* _get_edge_attributes, _format_edge_info and _convert_color.             *)
(*                                                                         *)
(* Python dicts are functions whose DOMAIN is the set of keys present, so  *)
(* that an absent key is absent from the DOMAIN.  networkx.DiGraph is the  *)
(* pair of its node dict and its edge dict (one edge per ordered pair;     *)
(* add_node/add_edge on an existing key merge the attributes).             *)
(***************************************************************************)
EXTENDS Integers, Sequences, FiniteSets, TLC

VARIABLES network, G, node_synapse_types, pc, in_idx, proj_idx, error, sweeps

vars == <<network, G, node_synapse_types, pc, in_idx, proj_idx, error, sweeps>>

(***************************************************************************)
(* Bounds of the model.                                                    *)
(***************************************************************************)
MaxProjs == 2
MaxInputs == 1

(***************************************************************************)
(* Dicts.                                                                  *)
(***************************************************************************)
EmptyDict == [k \in {} |-> ""]

\* an optional key: s is {} (key absent) or a singleton {value}
Opt(k, s) == IF s = {} THEN EmptyDict ELSE [kk \in {k} |-> CHOOSE v \in s : TRUE]

\* dict.get(k, default)
Get(d, k, default) == IF k \in DOMAIN d THEN d[k] ELSE default

\* all sequences of length at most n over S
SeqsUpTo(S, n) == UNION { [1..m -> S] : m \in 0..n }

(***************************************************************************)
(* The network descriptions the model is run on.                           *)
(* Probabilities are in tenths: 3 is 0.3 and ProbOne is 1.0.               *)
(***************************************************************************)
ProbOne == 10

Populations ==
    [P |-> [properties |-> [color |-> "0 0 1"], size |-> 10],
     Q |-> [properties |-> [color |-> "0 1 0 0.5"], size |-> 20]]

PopIds == DOMAIN Populations

MkProj(pre, post, syn, rc, dir, w, d) ==
    [presynaptic |-> pre, postsynaptic |-> post]
        @@ Opt("synapse", syn) @@ Opt("random_connectivity", rc)
        @@ Opt("directionality", dir) @@ Opt("weight", w) @@ Opt("delay", d)

MkInput(id, target) == [id |-> id, population |-> target]

\* ids of a sequence of input entries are the keys of a dict: distinct
DistinctIds(ins) == \A a, b \in 1..Len(ins) : ins[a].id = ins[b].id => a = b

MkNetwork(ins, projs) ==
    [populations |-> Populations, inputs |-> ins, projections |-> projs]

\* well-formed descriptions: every reference is a declared population and
\* every projection names its synapse
ValidProjections ==
    { MkProj(pr[1], pr[2], {syn}, {}, dir, {}, {}) :
        pr \in {<<"P", "P">>, <<"P", "Q">>, <<"Q", "P">>},
        syn \in {"ampaSyn", "gabaSyn", "nmdaSyn"},
        dir \in {{}, {"bidirectional"}} }
        \cup
    { MkProj("P", "Q", {"ampaSyn"}, {[probability |-> 3]}, dir, {5}, {}) :
        dir \in {{}, {"bidirectional"}} }

ValidInputs == { MkInput(id, t) : id \in {"I", "P"}, t \in PopIds }

\* descriptions with undeclared references and absent optional fields
AnyProjections ==
    { MkProj(pre, post, syn, {}, {}, {}, {}) :
        pre \in {"P", "X", "I"}, post \in {"P", "X", "I"},
        syn \in {{}, {"ampaSyn"}, {"nmdaSyn"}} }
        \cup
    { MkProj("P", post, {syn}, {}, {"bidirectional"}, {}, {}) :
        post \in {"P", "X", "I"}, syn \in {"ampaSyn", "nmdaSyn"} }

AnyInputs == { MkInput(id, t) : id \in {"I"}, t \in {"P", "X"} }

\* single projections over every combination of the optional fields
AttrProjections ==
    { MkProj(pre, "Q", syn, rc, dir, w, d) :
        pre \in {"P", "Q"},
        syn \in {{}, {"ampaSyn"}, {"gabaSyn"}, {"nmdaSyn"}, {"generic"}},
        rc \in {{}, {EmptyDict}, {[probability |-> 3]}, {[probability |-> ProbOne]}},
        dir \in {{}, {"bidirectional"}},
        w \in {{}, {0}, {5}}, d \in {{}, {2}} }

(***************************************************************************)
(* _convert_color: "r g b" or "r g b a" to the RGBA tuple of to_rgba,      *)
(* which appends alpha 1.0 to three components.                            *)
(***************************************************************************)
ConvertColor(color_str) ==
    CASE color_str = "0 0 1" -> "(0.0, 0.0, 1.0, 1.0)"
      [] color_str = "0 1 0 0.5" -> "(0.0, 1.0, 0.0, 0.5)"
      [] color_str = "1 1 0" -> "(1.0, 1.0, 0.0, 1.0)"

node_shapes == [excitatory |-> "^", inhibitory |-> "o", generic |-> "s", input |-> "h"]

InputNodeSize == 2

(***************************************************************************)
(* networkx.DiGraph                                                        *)
(***************************************************************************)
EmptyGraph == [nodes |-> EmptyDict, edges |-> EmptyDict]

\* G.add_node(n, **attrs): creates the node or updates its attributes
AddNode(g, n, attrs) ==
    [g EXCEPT !.nodes =
        IF n \in DOMAIN g.nodes
        THEN (n :> (attrs @@ g.nodes[n])) @@ g.nodes
        ELSE (n :> attrs) @@ g.nodes]

\* G.add_edge(u, v, **attrs): creates absent endpoints without attributes,
\* creates the edge or updates its attributes
AddEdge(g, u, v, attrs) ==
    LET n1 == IF u \in DOMAIN g.nodes THEN g.nodes ELSE (u :> EmptyDict) @@ g.nodes
        n2 == IF v \in DOMAIN n1 THEN n1 ELSE (v :> EmptyDict) @@ n1
        e  == IF <<u, v>> \in DOMAIN g.edges
              THEN (<<u, v>> :> (attrs @@ g.edges[<<u, v>>])) @@ g.edges
              ELSE (<<u, v>> :> attrs) @@ g.edges
    IN [nodes |-> n2, edges |-> e]

\* G.nodes[n][k] = v on an existing node
SetNodeAttr(g, n, k, v) ==
    [g EXCEPT !.nodes = (n :> ((k :> v) @@ g.nodes[n])) @@ g.nodes]

(***************************************************************************)
(* node_synapse_types maps a node to a set of categories, or, for an input *)
(* node, to the string 'dummy' (graph.py line 98).                         *)
(***************************************************************************)
CategorySet(s) == [is_str |-> FALSE, elems |-> s]

DummyStr == [is_str |-> TRUE, elems |-> {}]

\* Python's `x in v`: membership in a set, substring of the string 'dummy'
Contains(x, v) == IF v.is_str THEN x = "dummy" ELSE x \in v.elems

(***************************************************************************)
(* _format_edge_info                                                       *)
(***************************************************************************)
FormatEdgeInfo(proj) ==
    LET has_w == "weight" \in DOMAIN proj
        has_d == "delay" \in DOMAIN proj
    IN IF has_w /\ has_d
       THEN "Weight: " \o ToString(proj["weight"]) \o ", Delay: " \o ToString(proj["delay"])
       ELSE IF has_w THEN "Weight: " \o ToString(proj["weight"])
       ELSE IF has_d THEN "Delay: " \o ToString(proj["delay"])
       ELSE ""

\* variant: `<= 1` for `< 1`
StyleAtMostOne(proj) ==
    IF Get(Get(proj, "random_connectivity", EmptyDict), "probability", ProbOne) <= ProbOne
    THEN "dashed" ELSE "solid"

\* line 123: proj.get('random_connectivity', {}).get('probability', 1) < 1
Style(proj) ==
    IF Get(Get(proj, "random_connectivity", EmptyDict), "probability", ProbOne) < ProbOne
    THEN "dashed" ELSE "solid"

(***************************************************************************)
(* _get_edge_attributes.  The result is [exc, attrs]: exc is "" when the   *)
(* dict is returned and the exception's class when a lookup raises.  Every *)
(* branch reads proj['synapse']; the last branch reads it before the       *)
(* presynaptic population's color.                                         *)
(***************************************************************************)
Raise(e) == [exc |-> e, attrs |-> EmptyDict]

GetEdgeAttributes(synapse_type, proj, style, net) ==
    IF synapse_type = "ampaSyn"
    THEN [exc |-> "",
          attrs |-> [synapse |-> proj["synapse"], style |-> style,
                     arrowstyle |-> "-|>", color |-> "blue",
                     info |-> FormatEdgeInfo(proj),
                     synapse_category |-> "excitatory"]]
    ELSE IF synapse_type = "gabaSyn"
    THEN [exc |-> "",
          attrs |-> [synapse |-> proj["synapse"], style |-> style,
                     arrowstyle |-> "None", color |-> "red",
                     info |-> FormatEdgeInfo(proj),
                     synapse_category |-> "inhibitory"]]
    ELSE IF "synapse" \notin DOMAIN proj THEN Raise("KeyError")
    ELSE IF proj["presynaptic"] \notin DOMAIN net.populations THEN Raise("KeyError")
    ELSE [exc |-> "",
          attrs |-> [synapse |-> proj["synapse"], style |-> style,
                     arrowstyle |-> "->",
                     color |-> ConvertColor(net.populations[proj["presynaptic"]].properties.color),
                     info |-> FormatEdgeInfo(proj),
                     synapse_category |-> "generic"]]

(***************************************************************************)
(* _update_node_shapes: one sweep over the items of node_synapse_types     *)
(***************************************************************************)
ClassifyNode(attrs, synapse_types) ==
    IF Contains("excitatory", synapse_types) /\ Contains("inhibitory", synapse_types)
    THEN ("shape" :> node_shapes.generic) @@ attrs
    ELSE IF Contains("excitatory", synapse_types)
    THEN ("shape" :> node_shapes.excitatory) @@ ("color" :> "blue") @@ attrs
    ELSE IF Contains("inhibitory", synapse_types)
    THEN ("shape" :> node_shapes.inhibitory) @@ ("color" :> "red") @@ attrs
    ELSE IF Contains("dummy", synapse_types)
    THEN ("shape" :> node_shapes.input) @@ attrs
    ELSE ("shape" :> node_shapes.generic) @@ attrs

UpdateNodeShapes(g, nst) ==
    [g EXCEPT !.nodes =
        [n \in DOMAIN g.nodes |->
            IF n \in DOMAIN nst THEN ClassifyNode(g.nodes[n], nst[n]) ELSE g.nodes[n]]]

(***************************************************************************)
(* _add_projection on (G, node_synapse_types); the result is [exc, G, nst].*)
(* Nothing is changed when a lookup raises.                                *)
(***************************************************************************)
\* variant: the directionality flag is ignored
AddProjectionOneWay(g, nst, proj, net) ==
    LET pre_pop == proj["presynaptic"]
        post_pop == proj["postsynaptic"]
        ea == GetEdgeAttributes(Get(proj, "synapse", "generic"), proj, Style(proj), net)
        nst2 == [nst EXCEPT ![pre_pop] =
                    CategorySet(@.elems \cup {ea.attrs["synapse_category"]})]
    IN IF ea.exc # "" THEN [exc |-> ea.exc, G |-> g, nst |-> nst]
       ELSE IF pre_pop \notin DOMAIN nst THEN [exc |-> "KeyError", G |-> g, nst |-> nst]
       ELSE IF nst[pre_pop].is_str THEN [exc |-> "AttributeError", G |-> g, nst |-> nst]
       ELSE [exc |-> "", nst |-> nst2, G |-> AddEdge(g, pre_pop, post_pop, ea.attrs)]

\* variant: the presynaptic node takes the shape of the projection's category
AddProjectionShapeByLast(g, nst, proj, net) ==
    LET r == AddProjectionOneWay(g, nst, proj, net)
        pre_pop == proj["presynaptic"]
        post_pop == proj["postsynaptic"]
        ea == GetEdgeAttributes(Get(proj, "synapse", "generic"), proj, Style(proj), net)
        g2 == IF Get(proj, "directionality", "None") = "bidirectional"
              THEN AddEdge(r.G, post_pop, pre_pop, ea.attrs) ELSE r.G
    IN IF r.exc # "" THEN r
       ELSE [r EXCEPT !.G = SetNodeAttr(g2, pre_pop, "shape",
                                        node_shapes[ea.attrs["synapse_category"]])]

\* variant: the presynaptic node is reclassified after each projection
AddProjectionClassifying(g, nst, proj, net) ==
    LET r == AddProjectionOneWay(g, nst, proj, net)
        pre_pop == proj["presynaptic"]
        post_pop == proj["postsynaptic"]
        ea == GetEdgeAttributes(Get(proj, "synapse", "generic"), proj, Style(proj), net)
        g2 == IF Get(proj, "directionality", "None") = "bidirectional"
              THEN AddEdge(r.G, post_pop, pre_pop, ea.attrs) ELSE r.G
    IN IF r.exc # "" THEN r
       ELSE [r EXCEPT !.G = [g2 EXCEPT !.nodes[pre_pop] =
                                ClassifyNode(@, r.nst[pre_pop])]]

AddProjection(g, nst, proj, net) ==
    LET pre_pop == proj["presynaptic"]
        post_pop == proj["postsynaptic"]
        synapse_type == Get(proj, "synapse", "generic")
        style == Style(proj)
        ea == GetEdgeAttributes(synapse_type, proj, style, net)
        edge_attrs == ea.attrs
        nst2 == [nst EXCEPT ![pre_pop] =
                    CategorySet(@.elems \cup {edge_attrs["synapse_category"]})]
    IN IF ea.exc # "" THEN [exc |-> ea.exc, G |-> g, nst |-> nst]
       ELSE IF pre_pop \notin DOMAIN nst THEN [exc |-> "KeyError", G |-> g, nst |-> nst]
       ELSE IF nst[pre_pop].is_str THEN [exc |-> "AttributeError", G |-> g, nst |-> nst]
       ELSE IF Get(proj, "directionality", "None") = "bidirectional"
       THEN [exc |-> "", nst |-> nst2,
             G |-> AddEdge(AddEdge(g, pre_pop, post_pop, edge_attrs),
                           post_pop, pre_pop, edge_attrs)]
       ELSE [exc |-> "", nst |-> nst2,
             G |-> AddEdge(g, pre_pop, post_pop, edge_attrs)]

(***************************************************************************)
(* _add_input_edge                                                         *)
(***************************************************************************)
\* variant: the input edge is given an empty label and a category
InputEdgeAttrsSix ==
    [synapse |-> "input", style |-> "solid", arrowstyle |-> "->", color |-> "yellow",
     info |-> "", synapse_category |-> "generic"]

InputEdgeAttrs ==
    [synapse |-> "input", style |-> "solid", arrowstyle |-> "->", color |-> "yellow"]

AddInputEdge(g, input_id, input_info) ==
    AddEdge(g, input_id, input_info.population, InputEdgeAttrs)

(***************************************************************************)
(* The steps of _create_graph                                              *)
(***************************************************************************)
\* lines 83-85: one node per population, default shape
PopulationNode(pop) ==
    [color |-> ConvertColor(pop.properties.color),
     shape |-> node_shapes.generic, size |-> pop.size]

PopulationNodes(net) ==
    [nodes |-> [pop_id \in DOMAIN net.populations |-> PopulationNode(net.populations[pop_id])],
     edges |-> EmptyDict]

\* line 88
InitialSynapseTypes(g) == [node \in DOMAIN g.nodes |-> CategorySet({})]

\* lines 93-94
InputNode == [color |-> ConvertColor("1 1 0"), shape |-> node_shapes.input, size |-> InputNodeSize]

\* lines 93-98, one iteration of the loop over network['inputs']
AddInputStep(g, nst, entry) ==
    [G |-> AddInputEdge(AddNode(g, entry.id, InputNode), entry.id, entry),
     nst |-> (entry.id :> DummyStr) @@ nst]

\* line 91: 'inputs' in network and network['inputs']
HasInputs(net) == Len(net.inputs) > 0

(***************************************************************************)
(* _create_graph as a state machine.  pc is the position in the method:    *)
(* "populations" (line 83), "inputs" (line 92), "update" (line 101),       *)
(* "projections" (line 104), "done" (line 107, G returned) and "failed"    *)
(* (an exception left the method, no graph is returned).                   *)
(***************************************************************************)
InitOn(nets) ==
    /\ network \in nets
    /\ G = EmptyGraph
    /\ node_synapse_types = EmptyDict
    /\ pc = "populations"
    /\ in_idx = 0
    /\ proj_idx = 0
    /\ error = ""
    /\ sweeps = 0

ValidNetworks ==
    { MkNetwork(ins, projs) :
        ins \in { s \in SeqsUpTo(ValidInputs, MaxInputs) : DistinctIds(s) },
        projs \in SeqsUpTo(ValidProjections, MaxProjs) }

AnyNetworks ==
    { MkNetwork(ins, projs) :
        ins \in { s \in SeqsUpTo(AnyInputs, MaxInputs) : DistinctIds(s) },
        projs \in SeqsUpTo(AnyProjections, MaxProjs) }

AttrNetworks ==
    { MkNetwork(ins, <<proj>>) :
        ins \in { s \in SeqsUpTo({MkInput("I", "Q")}, MaxInputs) : DistinctIds(s) },
        proj \in AttrProjections }

Init == InitOn(ValidNetworks)

InitAny == InitOn(AnyNetworks)

InitAttr == InitOn(AttrNetworks)

\* lines 83-88 and the test of line 91
CreatePopulationNodes ==
    /\ pc = "populations"
    /\ G' = PopulationNodes(network)
    /\ node_synapse_types' = InitialSynapseTypes(PopulationNodes(network))
    /\ pc' = IF HasInputs(network) THEN "inputs" ELSE "projections"
    /\ UNCHANGED <<network, in_idx, proj_idx, error, sweeps>>

\* lines 92-98, one input entry
AddInputSource ==
    /\ pc = "inputs"
    /\ in_idx < Len(network.inputs)
    /\ LET r == AddInputStep(G, node_synapse_types, network.inputs[in_idx + 1])
       IN /\ G' = r.G
          /\ node_synapse_types' = r.nst
    /\ in_idx' = in_idx + 1
    /\ pc' = IF in_idx + 1 = Len(network.inputs) THEN "update" ELSE "inputs"
    /\ UNCHANGED <<network, proj_idx, error, sweeps>>

\* line 101, inside the `if` of line 91
UpdateShapes ==
    /\ pc = "update"
    /\ G' = UpdateNodeShapes(G, node_synapse_types)
    /\ sweeps' = sweeps + 1
    /\ pc' = "projections"
    /\ UNCHANGED <<network, node_synapse_types, in_idx, proj_idx, error>>

\* lines 104-105, one projection
ProcessProjection ==
    /\ pc = "projections"
    /\ proj_idx < Len(network.projections)
    /\ LET r == AddProjection(G, node_synapse_types,
                              network.projections[proj_idx + 1], network)
       IN /\ G' = r.G
          /\ node_synapse_types' = r.nst
          /\ error' = r.exc
          /\ pc' = IF r.exc # "" THEN "failed" ELSE "projections"
          /\ proj_idx' = IF r.exc # "" THEN proj_idx ELSE proj_idx + 1
    /\ UNCHANGED <<network, in_idx, sweeps>>

\* line 107
ReturnGraph ==
    /\ pc = "projections"
    /\ proj_idx = Len(network.projections)
    /\ pc' = "done"
    /\ UNCHANGED <<network, G, node_synapse_types, in_idx, proj_idx, error, sweeps>>

Next ==
    \/ CreatePopulationNodes
    \/ AddInputSource
    \/ UpdateShapes
    \/ ProcessProjection
    \/ ReturnGraph

Spec == Init /\ [][Next]_vars

SpecAny == InitAny /\ [][Next]_vars

SpecAttr == InitAttr /\ [][Next]_vars

(***************************************************************************)
(* _create_graph as a function of the description: the same steps, folded. *)
(* The result is [exc, G].                                                 *)
(***************************************************************************)
RECURSIVE FoldInputs(_, _, _, _)
FoldInputs(g, nst, ins, k) ==
    IF k > Len(ins) THEN [G |-> g, nst |-> nst]
    ELSE LET r == AddInputStep(g, nst, ins[k])
         IN FoldInputs(r.G, r.nst, ins, k + 1)

RECURSIVE FoldProjections(_, _, _, _, _)
FoldProjections(g, nst, projs, k, net) ==
    IF k > Len(projs) THEN [exc |-> "", G |-> g]
    ELSE LET r == AddProjection(g, nst, projs[k], net)
         IN IF r.exc # "" THEN [exc |-> r.exc, G |-> g]
            ELSE FoldProjections(r.G, r.nst, projs, k + 1, net)

CreateGraph(net) ==
    LET g0 == PopulationNodes(net)
        nst0 == InitialSynapseTypes(g0)
        a == FoldInputs(g0, nst0, net.inputs, 1)
        g1 == IF HasInputs(net) THEN UpdateNodeShapes(a.G, a.nst) ELSE g0
        nst1 == IF HasInputs(net) THEN a.nst ELSE nst0
    IN FoldProjections(g1, nst1, net.projections, 1, net)

TypeOK ==
    /\ pc \in {"populations", "inputs", "update", "projections", "done", "failed"}
    /\ in_idx \in 0..Len(network.inputs)
    /\ proj_idx \in 0..Len(network.projections)
    /\ error \in {"", "KeyError", "AttributeError"}
    /\ sweeps \in 0..1
    /\ pc = "done" => CreateGraph(network) = [exc |-> "", G |-> G]
    /\ pc = "failed" => CreateGraph(network).exc = error

(***************************************************************************)
(* Vocabulary of the properties                                            *)
(***************************************************************************)
Projs == network.projections

Inputs == network.inputs

SixKeys == {"synapse", "style", "arrowstyle", "color", "info", "synapse_category"}

FourKeys == {"synapse", "style", "arrowstyle", "color"}

IsBidirectional(p) == Get(p, "directionality", "None") = "bidirectional"

\* the ordered pairs a projection writes an edge for
PairsOf(p) ==
    IF IsBidirectional(p)
    THEN {<<p["presynaptic"], p["postsynaptic"]>>, <<p["postsynaptic"], p["presynaptic"]>>}
    ELSE {<<p["presynaptic"], p["postsynaptic"]>>}

\* the projections out of population n, by synapse kind
Outgoing(n) == { k \in 1..Len(Projs) : Projs[k]["presynaptic"] = n }

OutgoingOfKind(n, kind) ==
    { k \in Outgoing(n) : Get(Projs[k], "synapse", "generic") = kind }

DeclaredColor(n) == ConvertColor(network.populations[n].properties.color)

Perms(n) == { f \in [1..n -> 1..n] : \A a, b \in 1..n : f[a] = f[b] => a = b }

Permuted(seq, f) == [k \in 1..Len(seq) |-> seq[f[k]]]

RemoveAt(seq, k) == [m \in 1..(Len(seq) - 1) |-> IF m < k THEN seq[m] ELSE seq[m + 1]]

InputIdsDistinctFromPopulations == \A k \in 1..Len(Inputs) : Inputs[k].id \notin PopIds

AllReferencesDeclared ==
    /\ \A k \in 1..Len(Projs) :
          Projs[k]["presynaptic"] \in PopIds /\ Projs[k]["postsynaptic"] \in PopIds
    /\ \A k \in 1..Len(Inputs) : Inputs[k].population \in PopIds

(***************************************************************************)
(* C1: after the build of a valid model, a population all of whose         *)
(* outgoing projections are ampaSyn has the excitatory shape and color     *)
(* blue, and one all of whose outgoing projections are gabaSyn has the     *)
(* inhibitory shape and color red.                                         *)
(***************************************************************************)
C1_PureKindClassified ==
    pc = "done" =>
        \A n \in PopIds :
            /\ (Outgoing(n) # {} /\ OutgoingOfKind(n, "ampaSyn") = Outgoing(n))
                  => (G.nodes[n]["shape"] = node_shapes.excitatory
                      /\ G.nodes[n]["color"] = "blue")
            /\ (Outgoing(n) # {} /\ OutgoingOfKind(n, "gabaSyn") = Outgoing(n))
                  => (G.nodes[n]["shape"] = node_shapes.inhibitory
                      /\ G.nodes[n]["color"] = "red")

(***************************************************************************)
(* C2 as stated: in the built graph every bidirectional projection has two *)
(* distinct directed edges between its pair, pre->post and post->pre, with *)
(* identical style, color, arrowstyle, synapse_category and info.          *)
(***************************************************************************)
SameDerivedAttrs(e1, e2) ==
    \A a \in {"style", "color", "arrowstyle", "synapse_category", "info"} :
        /\ a \in DOMAIN e1
        /\ a \in DOMAIN e2
        /\ e1[a] = e2[a]

EdgesBetween(u, v) == {<<u, v>>, <<v, u>>} \cap DOMAIN G.edges

C2_BidirectionalTwoIdenticalEdges ==
    pc = "done" =>
        \A k \in 1..Len(Projs) :
            IsBidirectional(Projs[k]) =>
                LET u == Projs[k]["presynaptic"]
                    v == Projs[k]["postsynaptic"]
                IN /\ Cardinality(EdgesBetween(u, v)) = 2
                   /\ SameDerivedAttrs(G.edges[<<u, v>>], G.edges[<<v, u>>])

\* a unidirectional projection processed after projection k connects the
\* pair of projection k
OverwrittenOneWay(k) ==
    \E m \in (k + 1)..Len(Projs) :
        /\ ~IsBidirectional(Projs[m])
        /\ PairsOf(Projs[m]) \subseteq PairsOf(Projs[k])

(***************************************************************************)
(* C2 amended: in the built graph a bidirectional projection with          *)
(* pre # post has the two directed edges pre->post and post->pre, and with *)
(* pre = post the single self-loop; the two edges have identical style,    *)
(* color, arrowstyle, synapse_category and info unless a unidirectional    *)
(* projection processed later connects the same pair.                      *)
(***************************************************************************)
C2_BidirectionalEdges ==
    pc = "done" =>
        \A k \in 1..Len(Projs) :
            IsBidirectional(Projs[k]) =>
                LET u == Projs[k]["presynaptic"]
                    v == Projs[k]["postsynaptic"]
                IN /\ Cardinality(EdgesBetween(u, v)) = (IF u = v THEN 1 ELSE 2)
                   /\ ~OverwrittenOneWay(k)
                        => SameDerivedAttrs(G.edges[<<u, v>>], G.edges[<<v, u>>])

C2_Witness ==
    /\ pc = "done"
    /\ Len(Projs) = 2
    /\ IsBidirectional(Projs[1])
    /\ Projs[1]["presynaptic"] # Projs[1]["postsynaptic"]
    /\ PairsOf(Projs[2]) = PairsOf(Projs[1])
    /\ Projs[2]["synapse"] # Projs[1]["synapse"]
    /\ G.edges[<<"P", "Q">>] = G.edges[<<"Q", "P">>]

(***************************************************************************)
(* C3: the build fails whenever a projection's presynaptic id, a           *)
(* projection's postsynaptic id or an input's target is not a declared     *)
(* population, and no node is created for an undeclared id.                *)
(***************************************************************************)
C3_UnknownReferenceFails ==
    /\ pc = "done" => AllReferencesDeclared
    /\ DOMAIN G.nodes \subseteq PopIds \cup { Inputs[k].id : k \in 1..Len(Inputs) }

(***************************************************************************)
(* C4 as stated: the built graph is the same for every processing order of *)
(* the projections: same node attributes, same edge with the same          *)
(* attributes for every ordered pair.                                      *)
(***************************************************************************)
C4_OrderIndependent ==
    pc = "done" =>
        \A f \in Perms(Len(Projs)) :
            CreateGraph([network EXCEPT !.projections = Permuted(Projs, f)])
                = [exc |-> "", G |-> G]

\* the attributes projection k computes for its edges
AttrsOf(k) ==
    GetEdgeAttributes(Get(Projs[k], "synapse", "generic"), Projs[k],
                      Style(Projs[k]), network).attrs

NoConflictingWrites ==
    \A k, m \in 1..Len(Projs) :
        PairsOf(Projs[k]) \cap PairsOf(Projs[m]) # {} => AttrsOf(k) = AttrsOf(m)

(***************************************************************************)
(* C4 amended: the built graph is the same for every processing order of   *)
(* the projections provided no two projections write an edge for the same  *)
(* ordered pair with different attributes (a bidirectional projection      *)
(* writes both ordered pairs); otherwise the last one processed wins.      *)
(***************************************************************************)
C4_OrderIndependentWithoutConflicts ==
    (pc = "done" /\ NoConflictingWrites) =>
        \A f \in Perms(Len(Projs)) :
            CreateGraph([network EXCEPT !.projections = Permuted(Projs, f)])
                = [exc |-> "", G |-> G]

C4_Witness ==
    /\ pc = "done"
    /\ NoConflictingWrites
    /\ Len(Projs) = 2
    /\ Projs[1]["presynaptic"] = Projs[2]["presynaptic"]
    /\ Projs[1]["synapse"] = "ampaSyn"
    /\ Projs[2]["synapse"] = "gabaSyn"
    /\ Len(Inputs) > 0

(***************************************************************************)
(* C5 as stated: every edge of the graph carries the six attributes        *)
(* synapse, style, arrowstyle, color, info and synapse_category.           *)
(***************************************************************************)
C5_EveryEdgeSixAttributes ==
    \A e \in DOMAIN G.edges : DOMAIN G.edges[e] = SixKeys

WrittenByProjection(e) == \E k \in 1..proj_idx : e \in PairsOf(Projs[k])

(***************************************************************************)
(* C5 amended: every edge written by a projection carries the six          *)
(* attributes; an edge created from an input entry (and not rewritten by   *)
(* a projection) carries only synapse, style, arrowstyle and color.        *)
(***************************************************************************)
C5_EdgeAttributeKeys ==
    \A e \in DOMAIN G.edges :
        DOMAIN G.edges[e] = (IF WrittenByProjection(e) THEN SixKeys ELSE FourKeys)

C5_Witness ==
    /\ pc = "done"
    /\ \E e \in DOMAIN G.edges : WrittenByProjection(e)
    /\ \E e \in DOMAIN G.edges :
          ~WrittenByProjection(e) /\ G.edges[e]["synapse"] = "input"

(***************************************************************************)
(* C6: a projection between declared populations with none of the optional *)
(* fields synapse, random_connectivity, directionality, weight, delay is   *)
(* resolved (kind generic, style solid, empty label): processing it does   *)
(* not fail.                                                               *)
(***************************************************************************)
IsBare(p) ==
    /\ DOMAIN p = {"presynaptic", "postsynaptic"}
    /\ p["presynaptic"] \in PopIds
    /\ p["postsynaptic"] \in PopIds

C6_AbsentOptionalFieldsResolve ==
    /\ pc = "failed" => ~IsBare(Projs[proj_idx + 1])
    /\ \A k \in 1..proj_idx :
          IsBare(Projs[k]) /\ (\A m \in (k + 1)..proj_idx : PairsOf(Projs[m]) # PairsOf(Projs[k]))
            => LET e == G.edges[<<Projs[k]["presynaptic"], Projs[k]["postsynaptic"]>>]
               IN e["synapse_category"] = "generic" /\ e["style"] = "solid" /\ e["info"] = ""

(***************************************************************************)
(* C7: after the build, a population with at least one outgoing ampaSyn    *)
(* projection and at least one outgoing gabaSyn projection has the generic *)
(* shape and the color declared for it.                                    *)
(***************************************************************************)
IsMixed(n) == OutgoingOfKind(n, "ampaSyn") # {} /\ OutgoingOfKind(n, "gabaSyn") # {}

C7_MixedIsGeneric ==
    pc = "done" =>
        \A n \in PopIds :
            IsMixed(n) => /\ G.nodes[n]["shape"] = node_shapes.generic
                          /\ G.nodes[n]["color"] = DeclaredColor(n)

C7_Witness ==
    /\ pc = "done"
    /\ IsMixed("P")
    /\ Projs[1]["synapse"] = "ampaSyn"
    /\ G.nodes["P"]["shape"] = "s"

(***************************************************************************)
(* C8: when the input ids are distinct from the population ids, an input   *)
(* node has the input shape and the input color from its creation on; its  *)
(* edge to the target is solid, with the arrow "->" and the input color;   *)
(* and the target population ends with the shape and color it has in the   *)
(* same description without that input entry.                              *)
(***************************************************************************)
WithoutInput(k) == [network EXCEPT !.inputs = RemoveAt(Inputs, k)]

C8_InputNodeStable ==
    InputIdsDistinctFromPopulations =>
        \A k \in 1..in_idx :
            LET id == Inputs[k].id
                target == Inputs[k].population
            IN /\ G.nodes[id]["shape"] = node_shapes.input
               /\ G.nodes[id]["color"] = ConvertColor("1 1 0")
               /\ G.edges[<<id, target>>]["style"] = "solid"
               /\ G.edges[<<id, target>>]["arrowstyle"] = "->"
               /\ G.edges[<<id, target>>]["color"] = "yellow"
               /\ (pc = "done" /\ target \in PopIds) =>
                     LET other == CreateGraph(WithoutInput(k)).G.nodes[target]
                     IN /\ G.nodes[target]["shape"] = other["shape"]
                        /\ G.nodes[target]["color"] = other["color"]

(***************************************************************************)
(* C9: the attributes of the edge of a processed projection are those of   *)
(* the table: dashed exactly when a probability is present and below 1,    *)
(* else solid; ampaSyn: arrow "-|>", blue, excitatory; gabaSyn: no arrow,  *)
(* red, inhibitory; any other kind: arrow "->", the presynaptic            *)
(* population's declared color, generic.                                   *)
(***************************************************************************)
HasProbabilityBelowOne(p) ==
    /\ "random_connectivity" \in DOMAIN p
    /\ "probability" \in DOMAIN p["random_connectivity"]
    /\ p["random_connectivity"]["probability"] < ProbOne

MatchesTable(e, p) ==
    /\ e["style"] = "dashed" <=> HasProbabilityBelowOne(p)
    /\ e["style"] = "solid" <=> ~HasProbabilityBelowOne(p)
    /\ p["synapse"] = "ampaSyn" =>
          e["arrowstyle"] = "-|>" /\ e["color"] = "blue"
          /\ e["synapse_category"] = "excitatory"
    /\ p["synapse"] = "gabaSyn" =>
          e["arrowstyle"] = "None" /\ e["color"] = "red"
          /\ e["synapse_category"] = "inhibitory"
    /\ p["synapse"] \notin {"ampaSyn", "gabaSyn"} =>
          e["arrowstyle"] = "->" /\ e["color"] = DeclaredColor(p["presynaptic"])
          /\ e["synapse_category"] = "generic"

\* the projection processed last has just written its edges
C9_EdgeAttributeTable ==
    proj_idx >= 1 =>
        \A e \in PairsOf(Projs[proj_idx]) : MatchesTable(G.edges[e], Projs[proj_idx])

C9_Witness ==
    /\ pc = "done"
    /\ proj_idx = 1
    /\ Projs[1]["synapse"] = "nmdaSyn"
    /\ Get(Projs[1], "random_connectivity", EmptyDict) = [probability |-> ProbOne]
    /\ Projs[1]["presynaptic"] = "P"
    /\ G.edges[<<"P", "Q">>]["style"] = "solid"
    /\ G.edges[<<"P", "Q">>]["color"] = "(0.0, 0.0, 1.0, 1.0)"

(***************************************************************************)
(* C10: the sweep that writes the shapes of the nodes runs only after      *)
(* every projection has been processed: in no state has the sweep run      *)
(* while a projection is still unprocessed.                                *)
(***************************************************************************)
C10_SweepAfterAllProjections == sweeps > 0 => proj_idx = Len(Projs)
====
